---- MODULE Spec2Model ----
(***************************************************************************)
(* Seat inventory and booking lifecycle of the transportation service      *)
(* (mainapps/transportation).  The state is the content of the Vehicle,    *)
(* Schedule, TransportationBooking and PassengerDetail tables, the         *)
(* requests that have loaded a booking and not yet saved it, and the       *)
(* wall clock.  `last' is a history variable: the request completed last   *)
(* and the schedule counters it found.                                     *)
(***************************************************************************)
EXTENDS Integers, Sequences, FiniteSets, TLC

\* ---- bounds of the model ------------------------------------------------
\* MaxBookings: bookings stored under Spec; MaxRush: bookings created in a
\* row under SpecRush and SpecPassengers; MaxProcs: requests in flight at once;
\* MaxSeats: seats of a vehicle and largest counter of a schedule body;
\* MaxPassengers: largest number_of_passengers of a booking body;
\* MaxTime: last instant of the clock.
MaxBookings == 1
MaxRush == 2
MaxProcs == 2
MaxSeats == 1
MaxPassengers == 2
MaxTime == 1

\* ---- values of the program ----------------------------------------------
\* null of the nullable DateTimeFields confirmation_date / cancellation_date
NoDate == -1

ScheduleStatuses ==
    {"scheduled", "boarding", "departed", "arrived", "cancelled", "delayed"}

BookingStatus ==
    {"pending", "confirmed", "checked_in", "boarded", "completed",
     "cancelled", "no_show"}

\* request.user.id of the authenticated callers
UserIds == {"u1"}

\* X-Profile-ID header; "" stands for a request without the header
ProfileHeaders == {""}

\* request bodies: unit_price, taxes, fees
UnitPrices == {3}
Taxes == {1}
Fees == {0}

\* primary keys: one vehicle and up to two schedules; bookings are numbered
\* in the order of their creation
VehicleIds == {1}
ScheduleIds == {1, 2}
BookingIds == 1..(IF MaxRush > MaxBookings THEN MaxRush ELSE MaxBookings)
Procs == 1..MaxProcs

VARIABLES
    vehicles,     \* Vehicle table: sequence of total_seats, index = id
    schedules,    \* Schedule table: sequence of rows, index = id
    bookings,     \* TransportationBooking table: sequence of rows, index = id
    passengers,   \* PassengerDetail table: number of rows per booking
    req,          \* requests in flight: the instance each has loaded
    now,          \* timezone.now()
    last          \* the request completed last

vars == <<vehicles, schedules, bookings, passengers, req, now, last>>

\* ---- rows ---------------------------------------------------------------
NoSchedule ==
    [vehicle |-> 0, available_seats |-> 0, booked_seats |-> 0, status |-> ""]

NoRow ==
    [schedule |-> 0, passenger_user_id |-> "", profile_id |-> "",
     number_of_passengers |-> 0, unit_price |-> 0, subtotal |-> 0,
     taxes |-> 0, fees |-> 0, total_amount |-> 0, status |-> "",
     booking_reference |-> <<>>, confirmation_date |-> NoDate,
     cancellation_date |-> NoDate]

Idle == [pc |-> "idle", b |-> 0, local |-> NoRow]

\* f"{prefix}-{self.profile_id}-{suffix}"
generate_booking_reference(row, suffix) == <<"TRP", row.profile_id, suffix>>

\* Save as it would be if the totals were written as the instance holds them
SaveStale(row, suffix) ==
    IF row.booking_reference = <<>>
    THEN [row EXCEPT !.booking_reference =
                         generate_booking_reference(row, suffix)]
    ELSE row

\* TransportationBooking.save: the row that reaches the database
Save(row, suffix) ==
    LET r1 == IF row.booking_reference = <<>>
              THEN [row EXCEPT !.booking_reference =
                                   generate_booking_reference(row, suffix)]
              ELSE row
        r2 == [r1 EXCEPT !.subtotal = r1.unit_price * r1.number_of_passengers]
    IN  [r2 EXCEPT !.total_amount = r2.subtotal + r2.taxes + r2.fees]

\* unique=True on booking_reference
ReferenceTaken(ref, except) ==
    \E i \in 1..Len(bookings) : i # except /\ bookings[i].booking_reference = ref

\* the schedule row with primary key s, NoSchedule when there is none
ScheduleRow(s) == IF s \in 1..Len(schedules) THEN schedules[s] ELSE NoSchedule

StoredRow(b) == IF b \in 1..Len(bookings) THEN bookings[b] ELSE NoRow

\* No request has completed yet.
NoRequest ==
    [op |-> "", ok |-> FALSE, b |-> 0, s |-> 0, n |-> 0, from |-> "",
     available_seats |-> 0, booked_seats |-> 0,
     len |-> 0, won |-> 0, undo |-> FALSE,
     run_available |-> 0, run_booked |-> 0]

\* A creation of a one-passenger booking extends the run of such creations on
\* the same schedule that the request completed before it ended.  Runs are
\* followed up to MaxRush long.
ExtendsRun(op, s, n) ==
    /\ op = "create" /\ n = 1
    /\ last.op = "create" /\ last.n = 1 /\ last.s = s
    /\ last.len < MaxRush

\* A successful cancellation undoes the request completed before it when that
\* request created the booking it cancels.
Undoes(op, ok, b) ==
    /\ op = "cancel" /\ ok
    /\ last.op = "create" /\ last.ok /\ last.b = b

\* The record of a completed request: the operation, whether it succeeded, the
\* booking and schedule it was about, its passenger count, the stored status
\* of the booking and the counters of the schedule when it ran; the length of
\* the run of creations it ends and how many of them were stored; whether it
\* undoes a creation; the counters when the run, or the undone creation,
\* started.
Entry(op, ok, b, s, n) ==
    LET stored == IF op = "create" /\ ok THEN 1 ELSE 0
        own == [op |-> op, ok |-> ok, b |-> b, s |-> s, n |-> n,
                from |-> StoredRow(b).status,
                available_seats |-> ScheduleRow(s).available_seats,
                booked_seats |-> ScheduleRow(s).booked_seats,
                len |-> 1, won |-> stored, undo |-> FALSE,
                run_available |-> ScheduleRow(s).available_seats,
                run_booked |-> ScheduleRow(s).booked_seats]
    IN  IF ExtendsRun(op, s, n)
        THEN [own EXCEPT !.len = last.len + 1,
                         !.won = last.won + stored,
                         !.run_available = last.run_available,
                         !.run_booked = last.run_booked]
        ELSE IF Undoes(op, ok, b)
        THEN [own EXCEPT !.undo = TRUE,
                         !.run_available = last.available_seats,
                         !.run_booked = last.booked_seats]
        ELSE own

TypeOK ==
    /\ now \in 0..MaxTime
    /\ Len(vehicles) <= Cardinality(VehicleIds)
    /\ Len(schedules) <= Cardinality(ScheduleIds)
    /\ Len(bookings) <= Cardinality(BookingIds)
    /\ Len(passengers) = Len(bookings)
    /\ last.len \in 0..MaxRush

\* ---- initial state: the empty database ----------------------------------
Init ==
    /\ vehicles = <<>>
    /\ schedules = <<>>
    /\ bookings = <<>>
    /\ passengers = <<>>
    /\ req = [p \in Procs |-> Idle]
    /\ now = 0
    /\ last = NoRequest

\* the clock advances
Tick ==
    /\ now < MaxTime
    /\ now' = now + 1
    /\ UNCHANGED <<vehicles, schedules, bookings, passengers, req, last>>

\* POST /vehicles/
VehicleCreate(seats) ==
    /\ Len(vehicles) < Cardinality(VehicleIds)
    /\ vehicles' = Append(vehicles, seats)
    /\ last' = (Entry("vehicle_create", TRUE, 0, 0, 0))
    /\ UNCHANGED <<schedules, bookings, passengers, req, now>>

\* POST /schedules/ : ScheduleSerializer writes every field of the body
ScheduleCreate(v, avail, booked, st) ==
    /\ Len(schedules) < Cardinality(ScheduleIds)
    /\ IF v \in 1..Len(vehicles)
       THEN /\ schedules' = Append(schedules,
                   [vehicle |-> v, available_seats |-> avail,
                    booked_seats |-> booked, status |-> st])
            /\ last' = (Entry("schedule_create", TRUE, 0, 0, 0))
       ELSE /\ schedules' = schedules
            /\ last' = (Entry("schedule_create", FALSE, 0, 0, 0))
    /\ UNCHANGED <<vehicles, bookings, passengers, req, now>>

\* PUT/PATCH /schedules/{s}/
ScheduleUpdate(s, v, avail, booked, st) ==
    /\ s \in 1..Len(schedules)
    /\ v \in 1..Len(vehicles)
    /\ schedules' = [schedules EXCEPT ![s] =
           [vehicle |-> v, available_seats |-> avail,
            booked_seats |-> booked, status |-> st]]
    /\ last' = (Entry("schedule_update", TRUE, 0, 0, 0))
    /\ UNCHANGED <<vehicles, bookings, passengers, req, now>>

\* Visible as it would be if get_queryset did not filter the bookings
VisibleToAll(b, u, h) == b \in 1..Len(bookings)

\* TransportationBookingViewSet.get_queryset: the bookings a caller can reach
Visible(b, u, h) ==
    /\ b \in 1..Len(bookings)
    /\ IF h # ""
       THEN bookings[b].passenger_user_id = u \/ bookings[b].profile_id = h
       ELSE bookings[b].passenger_user_id = u

\* BookingCreate as it would be if the handler took the seats of a stored
\* booking out of the schedule (and cancel still gave nothing back)
BookingCreateReserving(u, h, s, n, st, price, tax, fee, details, dbfail, suffix) ==
    /\ Len(bookings) < Cardinality(BookingIds)
    /\ dbfail => details > 0
    /\ LET row == Save([NoRow EXCEPT
                          !.schedule = s,
                          !.passenger_user_id = u,
                          !.profile_id = IF h = "" THEN "customer" ELSE h,
                          !.number_of_passengers = n,
                          !.unit_price = price,
                          !.taxes = tax,
                          !.fees = fee,
                          !.status = st], suffix)
           stored == /\ s \in 1..Len(schedules)
                     /\ ~ReferenceTaken(row.booking_reference, 0)
                     /\ ~dbfail
                     /\ schedules[s].available_seats >= n
       IN  IF stored
           THEN /\ bookings' = Append(bookings, row)
                /\ passengers' = Append(passengers, details)
                /\ schedules' = [schedules EXCEPT
                       ![s].available_seats = @ - n,
                       ![s].booked_seats = @ + n]
                /\ last' = (Entry("create", TRUE, Len(bookings) + 1,
                                          s, n))
           ELSE /\ UNCHANGED <<bookings, passengers, schedules>>
                /\ last' = (Entry("create", FALSE, 0, s, n))
    /\ UNCHANGED <<vehicles, req, now>>

\* BookingCreate as it would be without transaction.atomic: the booking row
\* and the passenger rows written before the failing one stay stored
BookingCreateAutocommit(u, h, s, n, st, price, tax, fee, details, dbfail, suffix) ==
    /\ Len(bookings) < Cardinality(BookingIds)
    /\ dbfail => details > 0
    /\ LET row == Save([NoRow EXCEPT
                          !.schedule = s,
                          !.passenger_user_id = u,
                          !.profile_id = IF h = "" THEN "customer" ELSE h,
                          !.number_of_passengers = n,
                          !.unit_price = price,
                          !.taxes = tax,
                          !.fees = fee,
                          !.status = st], suffix)
           stored == /\ s \in 1..Len(schedules)
                     /\ ~ReferenceTaken(row.booking_reference, 0)
       IN  IF stored
           THEN /\ bookings' = Append(bookings, row)
                /\ passengers' = Append(passengers,
                       IF dbfail THEN details - 1 ELSE details)
                /\ last' = (Entry("create", ~dbfail, Len(bookings) + 1,
                                          s, n))
           ELSE /\ UNCHANGED <<bookings, passengers>>
                /\ last' = (Entry("create", FALSE, 0, s, n))
    /\ UNCHANGED <<vehicles, schedules, req, now>>

\* POST /bookings/ : perform_create and TransportationBookingSerializer.create.
\* The handler is one transaction: the booking row and its passenger rows are
\* stored together or not at all.  It reads and writes no Schedule field.
BookingCreate(u, h, s, n, st, price, tax, fee, details, dbfail, suffix) ==
    /\ Len(bookings) < Cardinality(BookingIds)
    /\ dbfail => details > 0
    /\ LET row == Save([NoRow EXCEPT
                          !.schedule = s,
                          !.passenger_user_id = u,
                          !.profile_id = IF h = "" THEN "customer" ELSE h,
                          !.number_of_passengers = n,
                          !.unit_price = price,
                          !.taxes = tax,
                          !.fees = fee,
                          !.status = st], suffix)
           stored == /\ s \in 1..Len(schedules)
                     /\ ~ReferenceTaken(row.booking_reference, 0)
                     /\ ~dbfail
       IN  IF stored
           THEN /\ bookings' = Append(bookings, row)
                /\ passengers' = Append(passengers, details)
                /\ last' = (Entry("create", TRUE, Len(bookings) + 1,
                                          s, n))
           ELSE /\ UNCHANGED <<bookings, passengers>>
                /\ last' = (Entry("create", FALSE, 0, s, n))
    /\ UNCHANGED <<vehicles, schedules, req, now>>

\* PUT/PATCH /bookings/{b}/ : get_object
UpdateLoad(p, u, h, b) ==
    /\ req[p].pc = "idle"
    /\ Visible(b, u, h)
    /\ req' = [req EXCEPT ![p] = [pc |-> "update", b |-> b, local |-> bookings[b]]]
    /\ UNCHANGED <<vehicles, schedules, bookings, passengers, now, last>>

\* PUT/PATCH /bookings/{b}/ : the body's fields are set on the loaded
\* instance, which is saved whole
UpdateSave(p, s, n, st, price, tax, fee, suffix) ==
    /\ req[p].pc = "update"
    /\ LET b == req[p].b
           row == Save([req[p].local EXCEPT
                          !.schedule = s,
                          !.number_of_passengers = n,
                          !.unit_price = price,
                          !.taxes = tax,
                          !.fees = fee,
                          !.status = st], suffix)
       IN  IF s \in 1..Len(schedules)
           THEN /\ bookings' = [bookings EXCEPT ![b] = row]
                /\ last' = (Entry("update", TRUE, b, s, n))
           ELSE /\ bookings' = bookings
                /\ last' = (Entry("update", FALSE, b, s, n))
    /\ req' = [req EXCEPT ![p] = Idle]
    /\ UNCHANGED <<vehicles, schedules, passengers, now>>

\* ConfirmLoad as it would be without the check of the status
ConfirmLoadUnchecked(p, u, h, b) ==
    /\ req[p].pc = "idle"
    /\ Visible(b, u, h)
    /\ req' = [req EXCEPT ![p] =
                  [pc |-> "confirm", b |-> b, local |-> bookings[b]]]
    /\ UNCHANGED <<vehicles, schedules, bookings, passengers, now, last>>

\* POST /bookings/{b}/confirm/ : get_object and the status check
ConfirmLoad(p, u, h, b) ==
    /\ req[p].pc = "idle"
    /\ Visible(b, u, h)
    /\ IF bookings[b].status # "pending"
       THEN /\ last' = (Entry("confirm", FALSE, b, bookings[b].schedule,
                                      bookings[b].number_of_passengers))
            /\ req' = req
       ELSE /\ req' = [req EXCEPT ![p] =
                          [pc |-> "confirm", b |-> b, local |-> bookings[b]]]
            /\ last' = last
    /\ UNCHANGED <<vehicles, schedules, bookings, passengers, now>>

\* ConfirmSave as it would be if confirming took the seats of the booking out
\* of its schedule
ConfirmSaveReserving(p, suffix) ==
    /\ req[p].pc = "confirm"
    /\ LET b == req[p].b
           row == Save([req[p].local EXCEPT !.status = "confirmed",
                                            !.confirmation_date = now], suffix)
       IN  /\ bookings' = [bookings EXCEPT ![b] = row]
           /\ schedules' = [schedules EXCEPT
                  ![row.schedule].available_seats =
                      @ - row.number_of_passengers,
                  ![row.schedule].booked_seats =
                      @ + row.number_of_passengers]
           /\ last' = (Entry("confirm", TRUE, b, row.schedule,
                                     row.number_of_passengers))
    /\ req' = [req EXCEPT ![p] = Idle]
    /\ UNCHANGED <<vehicles, passengers, now>>

\* POST /bookings/{b}/confirm/ : booking.save()
ConfirmSave(p, suffix) ==
    /\ req[p].pc = "confirm"
    /\ LET b == req[p].b
           row == Save([req[p].local EXCEPT !.status = "confirmed",
                                            !.confirmation_date = now], suffix)
       IN  /\ bookings' = [bookings EXCEPT ![b] = row]
           /\ last' = (Entry("confirm", TRUE, b, row.schedule,
                                     row.number_of_passengers))
    /\ req' = [req EXCEPT ![p] = Idle]
    /\ UNCHANGED <<vehicles, schedules, passengers, now>>

\* CancelLoad as it would be if only a cancelled booking were refused
CancelLoadUnchecked(p, u, h, b) ==
    /\ req[p].pc = "idle"
    /\ Visible(b, u, h)
    /\ IF bookings[b].status = "cancelled"
       THEN /\ last' = (Entry("cancel", FALSE, b, bookings[b].schedule,
                                      bookings[b].number_of_passengers))
            /\ req' = req
       ELSE /\ req' = [req EXCEPT ![p] =
                          [pc |-> "cancel", b |-> b, local |-> bookings[b]]]
            /\ last' = last
    /\ UNCHANGED <<vehicles, schedules, bookings, passengers, now>>

\* CancelLoad as it would be if a request waited for a lock on the whole
\* bookings table, held by every request in flight
CancelLoadLocking(p, u, h, b) ==
    /\ \A q \in Procs : req[q].pc = "idle"
    /\ Visible(b, u, h)
    /\ IF bookings[b].status \in {"completed", "cancelled"}
       THEN /\ last' = (Entry("cancel", FALSE, b, bookings[b].schedule,
                                      bookings[b].number_of_passengers))
            /\ req' = req
       ELSE /\ req' = [req EXCEPT ![p] =
                          [pc |-> "cancel", b |-> b, local |-> bookings[b]]]
            /\ last' = last
    /\ UNCHANGED <<vehicles, schedules, bookings, passengers, now>>

\* POST /bookings/{b}/cancel/ : get_object and the status check
CancelLoad(p, u, h, b) ==
    /\ req[p].pc = "idle"
    /\ Visible(b, u, h)
    /\ IF bookings[b].status \in {"completed", "cancelled"}
       THEN /\ last' = (Entry("cancel", FALSE, b, bookings[b].schedule,
                                      bookings[b].number_of_passengers))
            /\ req' = req
       ELSE /\ req' = [req EXCEPT ![p] =
                          [pc |-> "cancel", b |-> b, local |-> bookings[b]]]
            /\ last' = last
    /\ UNCHANGED <<vehicles, schedules, bookings, passengers, now>>

\* CancelSave as it would be if cancelling gave the seats of the booking back
\* to its schedule, whatever the stored status of the booking has become
CancelSaveReleasing(p, suffix) ==
    /\ req[p].pc = "cancel"
    /\ LET b == req[p].b
           row == Save([req[p].local EXCEPT !.status = "cancelled",
                                            !.cancellation_date = now], suffix)
       IN  /\ bookings' = [bookings EXCEPT ![b] = row]
           /\ schedules' = [schedules EXCEPT
                  ![row.schedule].available_seats =
                      @ + row.number_of_passengers,
                  ![row.schedule].booked_seats =
                      @ - row.number_of_passengers]
           /\ last' = (Entry("cancel", TRUE, b, row.schedule,
                                     row.number_of_passengers))
    /\ req' = [req EXCEPT ![p] = Idle]
    /\ UNCHANGED <<vehicles, passengers, now>>

\* POST /bookings/{b}/cancel/ : booking.save()
CancelSave(p, suffix) ==
    /\ req[p].pc = "cancel"
    /\ LET b == req[p].b
           row == Save([req[p].local EXCEPT !.status = "cancelled",
                                            !.cancellation_date = now], suffix)
       IN  /\ bookings' = [bookings EXCEPT ![b] = row]
           /\ last' = (Entry("cancel", TRUE, b, row.schedule,
                                     row.number_of_passengers))
    /\ req' = [req EXCEPT ![p] = Idle]
    /\ UNCHANGED <<vehicles, schedules, passengers, now>>

\* ---- the requests the service accepts ------------------------------------
\* total_seats of the vehicles
VehicleSeats == {MaxSeats}

\* available_seats and booked_seats of a schedule body (PositiveIntegerField)
SeatCounts == 0..MaxSeats

\* status of a schedule body: the bookable status and one that is not
ScheduleStatusInputs == {"scheduled", "cancelled"}

\* number_of_passengers of a booking body (PositiveIntegerField, default 1)
PassengerCounts == 0..MaxPassengers

\* status of a booking body: the default and one other choice
BookingStatusInputs == {"pending", "confirmed"}

\* the random suffix of a new reference: one that was not drawn before
SuffixChoices == {Len(bookings) + 1}

\* Requests against the seat inventory, served one at a time.  The clock
\* stands still: no handler reads a date.
OneAtATime == {1}

\* the schedule the requests are about when they are all about the same one
OneSchedule == {1}

\* the booking the requests are about when they are all about the same one
OneBooking == {1}

Next ==
    \/ \E seats \in VehicleSeats : VehicleCreate(seats)
    \/ /\ Len(schedules) < Cardinality(OneSchedule)
       /\ \E v \in VehicleIds, a \in SeatCounts, k \in SeatCounts,
             st \in ScheduleStatusInputs : ScheduleCreate(v, a, k, st)
    \/ \E s \in OneSchedule, v \in VehicleIds, a \in SeatCounts,
          k \in SeatCounts, st \in ScheduleStatusInputs :
          ScheduleUpdate(s, v, a, k, st)
    \/ /\ Len(bookings) < MaxBookings
       /\ \E u \in UserIds, h \in ProfileHeaders, s \in OneSchedule,
             n \in PassengerCounts, st \in BookingStatusInputs,
             price \in UnitPrices, tax \in Taxes, fee \in Fees,
             suffix \in SuffixChoices :
             BookingCreate(u, h, s, n, st, price, tax, fee, 0, FALSE, suffix)
    \/ \E p \in OneAtATime, u \in UserIds, h \in ProfileHeaders,
          b \in BookingIds : UpdateLoad(p, u, h, b)
    \/ \E p \in OneAtATime, s \in OneSchedule, n \in PassengerCounts,
          st \in BookingStatusInputs, price \in UnitPrices, tax \in Taxes,
          fee \in Fees, suffix \in SuffixChoices :
          UpdateSave(p, s, n, st, price, tax, fee, suffix)
    \/ \E p \in OneAtATime, u \in UserIds, h \in ProfileHeaders,
          b \in BookingIds : CancelLoad(p, u, h, b)
    \/ \E p \in OneAtATime, suffix \in SuffixChoices : CancelSave(p, suffix)

Spec == Init /\ [][Next]_vars

\* A rush on one schedule: one-passenger bookings are created one after the
\* other, in any order (each creation is a single INSERT in its transaction).
NextRush ==
    \/ \E seats \in VehicleSeats : VehicleCreate(seats)
    \/ /\ Len(schedules) < Cardinality(OneSchedule)
       /\ \E v \in VehicleIds, a \in SeatCounts, k \in SeatCounts,
             st \in ScheduleStatusInputs : ScheduleCreate(v, a, k, st)
    \/ /\ Len(bookings) < MaxRush
       /\ \E u \in UserIds, h \in ProfileHeaders, s \in OneSchedule,
             st \in BookingStatusInputs, price \in UnitPrices,
             tax \in Taxes, fee \in Fees, suffix \in SuffixChoices :
             BookingCreate(u, h, s, 1, st, price, tax, fee, 0, FALSE, suffix)
    \/ \E p \in OneAtATime, u \in UserIds, h \in ProfileHeaders,
          b \in BookingIds : CancelLoad(p, u, h, b)
    \/ \E p \in OneAtATime, suffix \in SuffixChoices : CancelSave(p, suffix)

SpecRush == Init /\ [][NextRush]_vars

\* Requests against one booking of a full-capacity schedule, served
\* concurrently while the clock runs: each confirm or cancel request loads
\* the booking and saves it in a later step.
NextLifecycle ==
    \/ Tick
    \/ \E seats \in VehicleSeats : VehicleCreate(seats)
    \/ /\ Len(schedules) < Cardinality(OneSchedule)
       /\ \E v \in VehicleIds : ScheduleCreate(v, MaxSeats, 0, "scheduled")
    \/ /\ Len(bookings) < Cardinality(OneBooking)
       /\ \E u \in UserIds, h \in ProfileHeaders, s \in OneSchedule,
             st \in BookingStatus, price \in UnitPrices, tax \in Taxes,
             fee \in Fees, suffix \in SuffixChoices :
             BookingCreate(u, h, s, 1, st, price, tax, fee, 0, FALSE, suffix)
    \/ \E p \in Procs, u \in UserIds, h \in ProfileHeaders, b \in BookingIds :
          ConfirmLoad(p, u, h, b)
    \/ \E p \in Procs, suffix \in SuffixChoices : ConfirmSave(p, suffix)
    \/ \E p \in Procs, u \in UserIds, h \in ProfileHeaders, b \in BookingIds :
          CancelLoad(p, u, h, b)
    \/ \E p \in Procs, suffix \in SuffixChoices : CancelSave(p, suffix)

SpecLifecycle == Init /\ [][NextLifecycle]_vars

\* status of a booking body that moves the booking on in its journey
TransitionInputs == {"checked_in", "boarded", "completed", "no_show"}

\* The life of the bookings of one schedule, requests served one at a time:
\* a booking is created in any status the body names, then updated into a
\* later status, confirmed or cancelled.
NextTransitions ==
    \/ \E seats \in VehicleSeats : VehicleCreate(seats)
    \/ /\ Len(schedules) < Cardinality(OneSchedule)
       /\ \E v \in VehicleIds : ScheduleCreate(v, MaxSeats, 0, "scheduled")
    \/ /\ Len(bookings) < Cardinality(OneBooking)
       /\ \E u \in UserIds, h \in ProfileHeaders, s \in OneSchedule,
             n \in PassengerCounts, st \in BookingStatus,
             price \in UnitPrices, tax \in Taxes, fee \in Fees,
             suffix \in SuffixChoices :
             BookingCreate(u, h, s, n, st, price, tax, fee, 0, FALSE, suffix)
    \/ \E p \in OneAtATime, u \in UserIds, h \in ProfileHeaders,
          b \in BookingIds : UpdateLoad(p, u, h, b)
    \/ \E p \in OneAtATime, s \in OneSchedule, n \in PassengerCounts,
          st \in TransitionInputs, price \in UnitPrices, tax \in Taxes,
          fee \in Fees, suffix \in SuffixChoices :
          UpdateSave(p, s, n, st, price, tax, fee, suffix)
    \/ \E p \in OneAtATime, u \in UserIds, h \in ProfileHeaders,
          b \in BookingIds : ConfirmLoad(p, u, h, b)
    \/ \E p \in OneAtATime, suffix \in SuffixChoices : ConfirmSave(p, suffix)
    \/ \E p \in OneAtATime, u \in UserIds, h \in ProfileHeaders,
          b \in BookingIds : CancelLoad(p, u, h, b)
    \/ \E p \in OneAtATime, suffix \in SuffixChoices : CancelSave(p, suffix)

SpecTransitions == Init /\ [][NextTransitions]_vars

\* Requests against the bookings of two schedules, served concurrently: one
\* booking is created on each schedule, and each cancel request loads its
\* booking and saves it in a later step.
NextIndependent ==
    \/ \E seats \in VehicleSeats : VehicleCreate(seats)
    \/ \E v \in VehicleIds : ScheduleCreate(v, MaxSeats, 0, "scheduled")
    \/ /\ Len(bookings) < Cardinality(ScheduleIds)
       /\ \E u \in UserIds, h \in ProfileHeaders, price \in UnitPrices,
             tax \in Taxes, fee \in Fees, suffix \in SuffixChoices :
             BookingCreate(u, h, Len(bookings) + 1, 1, "pending", price,
                           tax, fee, 0, FALSE, suffix)
    \/ \E p \in Procs, u \in UserIds, h \in ProfileHeaders, b \in BookingIds :
          CancelLoad(p, u, h, b)
    \/ \E p \in Procs, suffix \in SuffixChoices : CancelSave(p, suffix)

SpecIndependent == Init /\ [][NextIndependent]_vars

\* number of entries of the passengers list of a booking body
DetailCounts == 0..MaxPassengers

\* number_of_passengers of a booking body that names a passenger at least
PartySizes == 1..MaxPassengers

\* Bookings created with passenger details, on one schedule: the INSERT of a
\* passenger row may fail.
NextPassengers ==
    \/ \E seats \in VehicleSeats : VehicleCreate(seats)
    \/ /\ Len(schedules) < Cardinality(OneSchedule)
       /\ \E v \in VehicleIds : ScheduleCreate(v, MaxSeats, 0, "scheduled")
    \/ /\ Len(bookings) < MaxRush
       /\ \E u \in UserIds, h \in ProfileHeaders, s \in OneSchedule,
             n \in PartySizes, price \in UnitPrices, tax \in Taxes,
             fee \in Fees, details \in DetailCounts, dbfail \in BOOLEAN,
             suffix \in SuffixChoices :
             BookingCreate(u, h, s, n, "pending", price, tax, fee, details,
                           dbfail, suffix)

SpecPassengers == Init /\ [][NextPassengers]_vars

\* two authenticated callers, and the X-Profile-ID headers they send: none,
\* a profile of their own, or the word perform_create stores for no header
Callers == {"u1", "u2"}
CallerHeaders == {"", "p1", "customer"}

\* Requests of two callers, served one at a time: each creates bookings with
\* or without a profile header and asks to confirm or cancel any booking.
NextAccess ==
    \/ \E seats \in VehicleSeats : VehicleCreate(seats)
    \/ /\ Len(schedules) < Cardinality(OneSchedule)
       /\ \E v \in VehicleIds : ScheduleCreate(v, MaxSeats, 0, "scheduled")
    \/ /\ Len(bookings) < Cardinality(Callers)
       /\ \E u \in Callers, h \in CallerHeaders, s \in OneSchedule,
             price \in UnitPrices, tax \in Taxes, fee \in Fees,
             suffix \in SuffixChoices :
             BookingCreate(u, h, s, 1, "pending", price, tax, fee, 0, FALSE,
                           suffix)
    \/ \E p \in OneAtATime, u \in Callers, h \in CallerHeaders,
          b \in BookingIds : ConfirmLoad(p, u, h, b)
    \/ \E p \in OneAtATime, suffix \in SuffixChoices : ConfirmSave(p, suffix)
    \/ \E p \in OneAtATime, u \in Callers, h \in CallerHeaders,
          b \in BookingIds : CancelLoad(p, u, h, b)
    \/ \E p \in OneAtATime, suffix \in SuffixChoices : CancelSave(p, suffix)

SpecAccess == Init /\ [][NextAccess]_vars

\* ---- the claims ----------------------------------------------------------
\* total_seats of the vehicle of schedule s
TotalCapacity(s) == vehicles[schedules[s].vehicle]

\* passengers of the bookings 1..i of schedule s that are not cancelled
RECURSIVE SeatsSold(_, _)
SeatsSold(s, i) ==
    IF i = 0 THEN 0
    ELSE SeatsSold(s, i - 1)
         + (IF bookings[i].schedule = s /\ bookings[i].status # "cancelled"
            THEN bookings[i].number_of_passengers ELSE 0)

\* the counters the last request found added up to the capacity of its schedule
FoundConsistent ==
    /\ last.s \in 1..Len(schedules)
    /\ last.available_seats + last.booked_seats = TotalCapacity(last.s)

\* C1: in every reachable state, available_seats + booked_seats of every
\* schedule equals the total_seats of its vehicle.
C1_SeatsAddUpToCapacity ==
    \A s \in 1..Len(schedules) :
        schedules[s].available_seats + schedules[s].booked_seats
            = TotalCapacity(s)

\* C2: no schedule is ever oversold: both counters are non-negative and the
\* passengers of its bookings that are not cancelled fit its capacity (stated
\* for the schedules whose counters add up to the capacity).
C2_NeverOversold ==
    \A s \in 1..Len(schedules) :
        (schedules[s].available_seats + schedules[s].booked_seats
            = TotalCapacity(s))
        => /\ schedules[s].available_seats >= 0
           /\ schedules[s].booked_seats >= 0
           /\ SeatsSold(s, Len(bookings)) <= TotalCapacity(s)

\* C3: when K >= 2 one-passenger creations run against a schedule in status
\* 'scheduled' that had C >= 1 available seats, and K > C, exactly C of them
\* are stored, the others are rejected and available_seats ends at 0.
C3_ExactlyCapacitySucceeds ==
    ( /\ last.op = "create" /\ last.n = 1 /\ last.len >= 2
      /\ ScheduleRow(last.s).status = "scheduled"
      /\ last.run_available >= 1
      /\ last.run_available + last.run_booked = TotalCapacity(last.s)
      /\ last.len > last.run_available )
    => /\ last.won = last.run_available
       /\ ScheduleRow(last.s).available_seats = 0

\* C4: a successful creation for n passengers on schedule S decreases
\* S.available_seats by n and increases S.booked_seats by n.
C4_CreateReservesSeats ==
    (last.op = "create" /\ last.ok /\ FoundConsistent)
    => /\ ScheduleRow(last.s).available_seats = last.available_seats - last.n
       /\ ScheduleRow(last.s).booked_seats = last.booked_seats + last.n

\* C5: a creation that asks for more passengers than the schedule has
\* available seats is rejected: no booking is stored, the counters stay.
C5_InsufficientCapacityRejected ==
    ( /\ last.op = "create" /\ FoundConsistent
      /\ ScheduleRow(last.s).status = "scheduled"
      /\ last.n > last.available_seats )
    => /\ ~last.ok
       /\ ScheduleRow(last.s).available_seats = last.available_seats
       /\ ScheduleRow(last.s).booked_seats = last.booked_seats

\* C6: a creation against a schedule whose status is not 'scheduled' is
\* rejected whatever its available seats: no booking is stored, the counters
\* stay.
C6_NotBookableRejected ==
    ( /\ last.op = "create" /\ FoundConsistent /\ last.n >= 1
      /\ ScheduleRow(last.s).status # "scheduled" )
    => /\ ~last.ok
       /\ ScheduleRow(last.s).available_seats = last.available_seats
       /\ ScheduleRow(last.s).booked_seats = last.booked_seats

\* C7: cancelling a pending or confirmed booking gives its seats back:
\* available_seats grows by number_of_passengers and booked_seats shrinks by
\* the same amount (stated for a schedule that counted the seats as booked).
C7_CancelReleasesSeats ==
    ( /\ last.op = "cancel" /\ last.ok
      /\ last.from \in {"pending", "confirmed"}
      /\ FoundConsistent /\ last.booked_seats >= last.n )
    => /\ ScheduleRow(last.s).available_seats = last.available_seats + last.n
       /\ ScheduleRow(last.s).booked_seats = last.booked_seats - last.n

\* C8: a cancel request that acts on a booking whose stored status is already
\* 'cancelled', whether it finds it so or saves over it, changes neither the
\* booking nor any schedule.
C8_CancelIsIdempotent ==
    [][\A p \in Procs, b \in BookingIds :
         ( /\ StoredRow(b).status = "cancelled"
           /\ \/ \E u \in UserIds, h \in ProfileHeaders : CancelLoad(p, u, h, b)
              \/ req[p].b = b /\ \E x \in SuffixChoices : CancelSave(p, x) )
         => (bookings' = bookings /\ schedules' = schedules)]_vars

\* C9: creating a booking on schedule S and cancelling it in the very next
\* request leaves S.available_seats and S.booked_seats at their values from
\* before the creation.
C9_CreateThenCancelRestores ==
    (last.op = "cancel" /\ last.undo)
    => /\ ScheduleRow(last.s).available_seats = last.run_available
       /\ ScheduleRow(last.s).booked_seats = last.run_booked

C9_Witness ==
    /\ last.op = "cancel" /\ last.undo /\ last.n >= 1
    /\ StoredRow(last.b).status = "cancelled"
    /\ ScheduleRow(last.s).available_seats >= 1

\* C10: right after a successful creation the stored booking is 'pending',
\* whatever status the body supplied.
C10_CreatedPending ==
    (last.op = "create" /\ last.ok) => StoredRow(last.b).status = "pending"

\* the counters of every schedule are after the step what they were before it
CountersKept ==
    \A s \in 1..Len(schedules) :
        /\ schedules'[s].available_seats = schedules[s].available_seats
        /\ schedules'[s].booked_seats = schedules[s].booked_seats

\* C11: booking creations and cancellations that run concurrently on one
\* schedule leave its counters as a sequential order of them does.  Run one
\* after the other, each leaves the counters as they are; so does every step
\* of a creation or cancellation taken while other requests are in flight.
C11_CountersSerializable ==
    [][ ( \/ \E u \in UserIds, h \in ProfileHeaders, s \in ScheduleIds,
               n \in PassengerCounts, st \in BookingStatus,
               price \in UnitPrices, tax \in Taxes, fee \in Fees,
               suffix \in SuffixChoices :
               BookingCreate(u, h, s, n, st, price, tax, fee, 0, FALSE, suffix)
          \/ \E p \in Procs, u \in UserIds, h \in ProfileHeaders,
               b \in BookingIds : CancelLoad(p, u, h, b)
          \/ \E p \in Procs, suffix \in SuffixChoices : CancelSave(p, suffix) )
        => CountersKept ]_vars

\* a cancellation completed while another cancellation of a booking of the
\* same schedule had loaded its instance and not saved it
C11_Witness ==
    /\ last.op = "cancel" /\ last.ok /\ last.n >= 1
    /\ \E q \in Procs :
          /\ req[q].pc = "cancel"
          /\ req[q].local.schedule = last.s
    /\ ScheduleRow(last.s).available_seats = last.available_seats
    /\ ScheduleRow(last.s).booked_seats = last.booked_seats

\* C12: only booking creation and cancellation change the counters of a
\* schedule: an update of the schedule through the schedules endpoint and an
\* update of a booking leave available_seats and booked_seats as they are
\* (stated for updates that find counters adding up to the capacity).
C12_OnlyBookingsMoveCounters ==
    [][ ( /\ \A x \in 1..Len(schedules) :
               schedules[x].available_seats + schedules[x].booked_seats
                   = TotalCapacity(x)
          /\ \/ \E s \in ScheduleIds, v \in VehicleIds, a \in SeatCounts,
                  k \in SeatCounts, st \in ScheduleStatuses :
                  ScheduleUpdate(s, v, a, k, st)
             \/ \E p \in Procs, s \in ScheduleIds, n \in PassengerCounts,
                  st \in BookingStatus, price \in UnitPrices, tax \in Taxes,
                  fee \in Fees, suffix \in SuffixChoices :
                  UpdateSave(p, s, n, st, price, tax, fee, suffix) )
        => CountersKept ]_vars

\* C13: confirm, and an update that moves a booking into checked_in, boarded,
\* completed or no_show, leave available_seats and booked_seats of every
\* schedule unchanged.
C13_TransitionsKeepCounters ==
    [][ ( \/ \E p \in Procs, u \in UserIds, h \in ProfileHeaders,
               b \in BookingIds : ConfirmLoad(p, u, h, b)
          \/ \E p \in Procs, suffix \in SuffixChoices : ConfirmSave(p, suffix)
          \/ \E p \in Procs, s \in ScheduleIds, n \in PassengerCounts,
               st \in TransitionInputs, price \in UnitPrices, tax \in Taxes,
               fee \in Fees, suffix \in SuffixChoices :
               UpdateSave(p, s, n, st, price, tax, fee, suffix) )
        => CountersKept ]_vars

\* a pending booking of at least one passenger was confirmed
C13_Witness ==
    /\ last.op = "confirm" /\ last.ok /\ last.n >= 1
    /\ StoredRow(last.b).status = "confirmed"
    /\ ScheduleRow(last.s).available_seats = last.available_seats

\* C14: operations on different schedules are independent.  While a request
\* on a booking of schedule B is in flight, an idle request can start the
\* cancellation of any booking of another schedule and a booking can be
\* created on any other schedule; and a creation or a cancellation leaves the
\* counters of every schedule other than its own unchanged.
C14_SchedulesIndependent ==
    /\ [](\A q \in Procs : req[q].pc # "idle" =>
            /\ \A p \in Procs, b \in 1..Len(bookings) :
                  ( /\ req[p].pc = "idle"
                    /\ bookings[b].schedule # req[q].local.schedule )
                  => ENABLED (\E u \in UserIds, h \in ProfileHeaders :
                                 CancelLoad(p, u, h, b))
            /\ \A s \in 1..Len(schedules) :
                  ( /\ s # req[q].local.schedule
                    /\ Len(bookings) < Cardinality(BookingIds) )
                  => ENABLED (\E u \in UserIds, h \in ProfileHeaders,
                                 price \in UnitPrices, tax \in Taxes,
                                 fee \in Fees, suffix \in SuffixChoices :
                                 BookingCreate(u, h, s, 1, "pending", price,
                                               tax, fee, 0, FALSE, suffix)))
    /\ [][ \A a \in ScheduleIds :
             ( \/ \E u \in UserIds, h \in ProfileHeaders,
                    n \in PassengerCounts, st \in BookingStatus,
                    price \in UnitPrices, tax \in Taxes, fee \in Fees,
                    suffix \in SuffixChoices :
                    BookingCreate(u, h, a, n, st, price, tax, fee, 0, FALSE,
                                  suffix)
               \/ \E p \in Procs :
                    /\ req[p].local.schedule = a
                    /\ \E suffix \in SuffixChoices : CancelSave(p, suffix) )
             => \A s \in 1..Len(schedules) :
                    s # a => schedules'[s] = schedules[s] ]_vars

\* the booking of one schedule was cancelled and a cancel request on the
\* booking of the other schedule has loaded its instance and not saved it
C14_Witness ==
    /\ last.op = "cancel" /\ last.ok
    /\ StoredRow(last.b).status = "cancelled"
    /\ \E q \in Procs :
          /\ req[q].pc = "cancel"
          /\ req[q].local.schedule \in 1..Len(schedules)
          /\ req[q].local.schedule # last.s

\* C15: a cancellation whose release would drive booked_seats of the schedule
\* below zero (the booking holds more seats than the schedule counts as
\* booked) is rejected, and both counters stay.
C15_ReleaseExceedingBookedRejected ==
    ( /\ last.op = "cancel" /\ last.from \in {"pending", "confirmed"}
      /\ FoundConsistent
      /\ last.n > last.booked_seats )
    => /\ ~last.ok
       /\ ScheduleRow(last.s).available_seats = last.available_seats
       /\ ScheduleRow(last.s).booked_seats = last.booked_seats

\* C16: requests served one at a time, confirm changes a booking only when its
\* status is 'pending', and then sets status to 'confirmed' and
\* confirmation_date to the current time and nothing else; for a booking in
\* any other status it fails and changes no booking.
C16_ConfirmOnlyPending ==
    [][ \A p \in Procs, b \in BookingIds :
          /\ (\E u \in UserIds, h \in ProfileHeaders : ConfirmLoad(p, u, h, b))
             => /\ bookings' = bookings
                /\ IF bookings[b].status = "pending"
                   THEN req'[p].pc = "confirm" /\ req'[p].b = b
                   ELSE /\ req' = req
                        /\ last'.op = "confirm" /\ ~last'.ok /\ last'.b = b
          /\ (req[p].b = b /\ \E x \in SuffixChoices : ConfirmSave(p, x))
             => /\ bookings[b].status = "pending"
                /\ bookings' = [bookings EXCEPT
                                   ![b].status = "confirmed",
                                   ![b].confirmation_date = now]
                /\ last'.op = "confirm" /\ last'.ok ]_vars

\* a pending booking was confirmed and carries its confirmation date
C16_Witness ==
    /\ last.op = "confirm" /\ last.ok /\ last.from = "pending"
    /\ StoredRow(last.b).status = "confirmed"
    /\ StoredRow(last.b).confirmation_date # NoDate

\* C17: requests served one at a time, cancel succeeds from every status but
\* 'completed' and 'cancelled', setting status to 'cancelled' and
\* cancellation_date to the current time; from 'completed' or 'cancelled' it
\* fails and changes no booking; and no step of a confirm or a cancel changes
\* the status of a booking that is 'cancelled' or 'completed'.
C17_CancelAndAbsorbing ==
    [][ /\ \A p \in Procs, b \in BookingIds :
            /\ (\E u \in UserIds, h \in ProfileHeaders :
                    CancelLoad(p, u, h, b))
               => /\ bookings' = bookings
                  /\ IF bookings[b].status \in {"completed", "cancelled"}
                     THEN /\ req' = req
                          /\ last'.op = "cancel" /\ ~last'.ok /\ last'.b = b
                     ELSE req'[p].pc = "cancel" /\ req'[p].b = b
            /\ (req[p].b = b /\ \E x \in SuffixChoices : CancelSave(p, x))
               => /\ bookings[b].status \notin {"completed", "cancelled"}
                  /\ bookings' = [bookings EXCEPT
                                     ![b].status = "cancelled",
                                     ![b].cancellation_date = now]
                  /\ last'.op = "cancel" /\ last'.ok
        /\ ( \/ \E p \in Procs, u \in UserIds, h \in ProfileHeaders,
                   b \in BookingIds :
                   ConfirmLoad(p, u, h, b) \/ CancelLoad(p, u, h, b)
             \/ \E p \in Procs, x \in SuffixChoices :
                   ConfirmSave(p, x) \/ CancelSave(p, x) )
           => \A b \in 1..Len(bookings) :
                  bookings[b].status \in {"cancelled", "completed"}
                  => bookings'[b].status = bookings[b].status ]_vars

\* a booking that had been checked in, had boarded or had not shown up was
\* cancelled
C17_Witness ==
    /\ last.op = "cancel" /\ last.ok
    /\ last.from \in {"checked_in", "boarded", "no_show"}
    /\ StoredRow(last.b).status = "cancelled"
    /\ StoredRow(last.b).cancellation_date # NoDate

\* C18: when confirm and cancel run concurrently on a pending booking, a
\* cancel that was saved is not overwritten: a confirm that saves after it
\* leaves the stored status 'cancelled'.
C18_CancelNotOverwritten ==
    (last.op = "confirm" /\ last.ok /\ last.from = "cancelled")
    => StoredRow(last.b).status = "cancelled"

\* C19: after every request each stored booking has
\* subtotal = unit_price * number_of_passengers and
\* total_amount = subtotal + taxes + fees, its booking_reference is not empty,
\* and no later request (update, confirm or cancel) changes the reference.
C19_TotalsAndReference ==
    [][ \A b \in 1..Len(bookings') :
          /\ bookings'[b].subtotal
                 = bookings'[b].unit_price * bookings'[b].number_of_passengers
          /\ bookings'[b].total_amount
                 = bookings'[b].subtotal + bookings'[b].taxes + bookings'[b].fees
          /\ bookings'[b].booking_reference # <<>>
          /\ b <= Len(bookings)
             => bookings'[b].booking_reference = bookings[b].booking_reference
      ]_vars

\* a booking of two passengers or more that was confirmed and then cancelled
C19_Witness ==
    /\ last.op = "cancel" /\ last.ok
    /\ StoredRow(last.b).number_of_passengers >= 2
    /\ StoredRow(last.b).confirmation_date # NoDate
    /\ StoredRow(last.b).subtotal
           = StoredRow(last.b).unit_price * StoredRow(last.b).number_of_passengers
    /\ StoredRow(last.b).booking_reference # <<>>

\* C20: a creation with passenger details is all or nothing: when the INSERT
\* of a passenger row fails neither the booking nor any passenger row is
\* stored; when the creation succeeds the booking and one passenger row per
\* entry of the body are stored.
C20_CreateAllOrNothing ==
    [][ \A u \in UserIds, h \in ProfileHeaders, s \in ScheduleIds,
           n \in PassengerCounts, st \in BookingStatusInputs,
           price \in UnitPrices, tax \in Taxes, fee \in Fees,
           details \in DetailCounts, dbfail \in BOOLEAN,
           suffix \in SuffixChoices :
           BookingCreate(u, h, s, n, st, price, tax, fee, details, dbfail,
                         suffix)
           => IF last'.ok /\ ~dbfail
              THEN /\ Len(bookings') = Len(bookings) + 1
                   /\ passengers' = Append(passengers, details)
              ELSE /\ ~last'.ok
                   /\ bookings' = bookings
                   /\ passengers' = passengers ]_vars

\* a creation failed on a passenger row after another creation had stored its
\* booking with two passenger rows or more
C20_Witness ==
    /\ last.op = "create" /\ ~last.ok
    /\ last.s \in 1..Len(schedules)
    /\ Len(bookings) = 1 /\ Len(passengers) = 1
    /\ passengers[1] >= 2

\* C21: a confirm or cancel request of user u with profile header h acts on
\* booking b only if b.passenger_user_id = u, or h is present and
\* b.profile_id = h.  The request gets hold of b only then; its save writes b
\* and no other booking; and no confirm or cancel changes the
\* passenger_user_id or the profile_id of a booking, so that what held when
\* the request loaded b holds when it saves.
C21_OnlyReachableBookingsChange ==
    [][ /\ \A p \in Procs, u \in Callers, h \in CallerHeaders,
               b \in BookingIds :
               (ConfirmLoad(p, u, h, b) \/ CancelLoad(p, u, h, b))
               => /\ \/ bookings[b].passenger_user_id = u
                     \/ h # "" /\ bookings[b].profile_id = h
                  /\ bookings' = bookings
                  /\ \A q \in Procs : req'[q] # req[q] => req'[q].b = b
        /\ \A p \in Procs :
               (\E x \in SuffixChoices : ConfirmSave(p, x) \/ CancelSave(p, x))
               => \A b \in 1..Len(bookings) :
                      /\ b # req[p].b => bookings'[b] = bookings[b]
                      /\ bookings'[b].passenger_user_id
                             = bookings[b].passenger_user_id
                      /\ bookings'[b].profile_id = bookings[b].profile_id
      ]_vars

\* one booking was confirmed or cancelled while a booking of another user
\* under another profile stayed pending
C21_Witness ==
    /\ last.op \in {"confirm", "cancel"} /\ last.ok
    /\ StoredRow(last.b).status \in {"confirmed", "cancelled"}
    /\ \E b \in 1..Len(bookings) :
          /\ b # last.b
          /\ bookings[b].passenger_user_id # StoredRow(last.b).passenger_user_id
          /\ bookings[b].profile_id # StoredRow(last.b).profile_id
          /\ bookings[b].status = "pending"

====
